---- MODULE Spec2Model ----
(***************************************************************************)
(* A model of @bigbang-sdk/local-db: the shared store registry (getStore), *)
(* the Store Record state machine (hydrate, setValue, broadcast handler),  *)
(* the IndexedDB driver (idb.ts) and the BroadcastChannel driver           *)
(* (broadcast.ts), for several execution contexts (tabs) of one origin.    *)
(***************************************************************************)
EXTENDS Integers, Sequences, FiniteSets, TLC

VARIABLES
  env,        \* per context: which browser capabilities exist (window, indexedDB, BroadcastChannel)
  stores,     \* per context: the registry Map, regKey string -> record reference
  heap,       \* the Store Records ever allocated, by reference (index)
  storeCache, \* per context: idb.ts storeCache, keyFor string -> store handle or NoStore
  bcCache,    \* per context: broadcast.ts bcCache, nsKey string -> channel object or NoChannel
  handlers,   \* per channel object: the records whose "message" handler is registered, in order
  inbox,      \* per channel object: message events queued for dispatch, each with
              \* the record whose setValue posted it (0: another script)
  ioq,        \* IndexedDB requests issued and not yet completed, in issue order
  idb,        \* the origin's durable content: <<dbName, storeName, key>> -> value
  ev          \* the last step taken and what it did (observation of calls and their effects)

vars == <<env, stores, heap, storeCache, bcCache, handlers, inbox, ioq, idb, ev>>

----------------------------------------------------------------------------
(* Bounds of the model *)

\* IndexedDB requests and message events that may be outstanding at once
MaxQueue == 2
\* Store Records that may be allocated
MaxRecords == 2

(* Program constants *)

DEFAULT_DB == "local-db"
DEFAULT_STORE == "local-db"
\* README quick example: z.number().min(10).max(32)
FontMin == 10
FontMax == 32

----------------------------------------------------------------------------
(* JavaScript values: undefined, null, NaN, and objects {fontSize: n}.     *)
(* An object is represented by its content: values cross IndexedDB and the *)
(* channel by structured clone, so references are not preserved anyway.    *)

Undefined == [t |-> "undefined", v |-> 0]
Null == [t |-> "null", v |-> 0]
NaN == [t |-> "nan", v |-> 0]
Num(n) == [t |-> "number", v |-> n]
Obj(n) == [t |-> "object", v |-> n]

\* typeof x
TypeOf(x) == CASE x.t = "undefined" -> "undefined"
               [] x.t = "null" -> "object"
               [] x.t = "nan" -> "number"
               [] OTHER -> x.t

\* !x
Falsy(x) == \/ x.t \in {"undefined", "null", "nan"}
            \/ x.t = "number" /\ x.v = 0

\* fault: the fallback of ?? is dropped
CoalesceNoFallback(a, b) == a

\* a ?? b
Coalesce(a, b) == IF a.t \in {"undefined", "null"} THEN b ELSE a

\* a === b. Two objects of the model are never taken to be the same reference;
\* reference-identical objects are deep-equal, so isEqual gives the same answer.
StrictEq(a, b) == /\ a.t = b.t
                  /\ a.t \notin {"nan", "object"}
                  /\ a.v = b.v

\* fast-deep-equal on two objects {fontSize: n}
deepEqual(a, b) == a.v = b.v

\* fault: equality by === alone, without the deep comparison
isEqualByReference(a, b) == StrictEq(a, b)

\* the hook's isEqual, the equality contract
isEqual(a, b) ==
  IF StrictEq(a, b) THEN TRUE
  ELSE IF Falsy(a) \/ Falsy(b) THEN FALSE
  ELSE IF TypeOf(a) # "object" \/ TypeOf(b) # "object" THEN FALSE
  ELSE deepEqual(a, b)

\* schema.safeParse(val).success for the two schemas of the model:
\* "font" is z.object({fontSize: z.number().min(10).max(32)}), "any" is z.any()
safeParse(schema, val) ==
  IF schema = "any" THEN TRUE
  ELSE val.t = "object" /\ FontMin <= val.v /\ val.v <= FontMax

\* the hook's isValid
isValid(schema, val) ==
  IF val = Null THEN TRUE ELSE safeParse(schema, val)

----------------------------------------------------------------------------
(* Optional strings (dbName?, storeName?): {} is undefined, {s} is s.       *)

NoName == {}
Name(s) == {s}
\* opt ?? d
OrDefault(opt, d) == IF opt = {} THEN d ELSE CHOOSE s \in opt : TRUE

\* `${db}/${st}|${key}`
regKey(key, ns) ==
  LET db == OrDefault(ns.dbName, DEFAULT_DB)
      st == OrDefault(ns.storeName, DEFAULT_STORE)
  IN  db \o "/" \o st \o "|" \o key

\* idb.ts keyFor
keyFor(dbName, storeName) == dbName \o "/" \o storeName

\* broadcast.ts nsKey
nsKey(dbName, storeName) == dbName \o "/" \o storeName

\* broadcast.ts channelName
channelName(dbName, storeName) == "local-db:" \o dbName \o ":" \o storeName

----------------------------------------------------------------------------
(* State helpers *)

Refs == 1..Len(heap)

NoStore == <<>>
NoChannel == ""
EmptyMap == [x \in {} |-> 0]

\* the identity a record's closures captured, defaults applied
DbOf(ns) == OrDefault(ns.dbName, DEFAULT_DB)
StOf(ns) == OrDefault(ns.storeName, DEFAULT_STORE)
Norm(key, ns) == <<DbOf(ns), StOf(ns), key>>

\* the observation of a step
Ev(op, ref, key, ns, arg, trace, notify, prev) ==
  [op |-> op, ref |-> ref, key |-> key, ns |-> ns, arg |-> arg,
   trace |-> trace, notify |-> notify, prev |-> prev]

NoNs == [dbName |-> NoName, storeName |-> NoName]
NoMsg == [truthy |-> FALSE, key |-> NoName, value |-> Undefined, removed |-> FALSE]
\* the argument slot of an observation: a value, or the data of a message
ArgVal(v) == [val |-> v, msg |-> NoMsg]
ArgMsg(d) == [val |-> Undefined, msg |-> d]

\* durable content: get(key, store), undefined when there is no entry
Stored(db, cell) == IF cell \in DOMAIN db THEN db[cell] ELSE Undefined
\* set(key, value, store)
Put(db, cell, val) == [x \in (DOMAIN db) \cup {cell} |-> IF x = cell THEN val ELSE db[x]]
\* del(key, store)
Del(db, cell) == [x \in (DOMAIN db) \ {cell} |-> db[x]]

----------------------------------------------------------------------------
(* idb.ts *)

\* getOrCreateIdbStore: the handle returned (the <<dbName, storeName>> it was
\* created with), NoStore for null
IdbStoreOf(c, dbName, storeName) ==
  LET k == keyFor(dbName, storeName) IN
  IF ~env[c].indexedDB THEN NoStore
  ELSE IF k \in DOMAIN storeCache[c] THEN storeCache[c][k]
  ELSE <<dbName, storeName>>

\* getOrCreateIdbStore: the cache after the call
StoreCacheAfter(c, dbName, storeName) ==
  LET k == keyFor(dbName, storeName) IN
  IF ~env[c].indexedDB \/ k \in DOMAIN storeCache[c] THEN storeCache
  ELSE [storeCache EXCEPT ![c] = @ @@ (k :> <<dbName, storeName>>)]

\* idbGet(key, ns): the request it leaves outstanding. With no store the call
\* returns undefined at once, which the awaiting caller sees one turn later.
idbGet(r, from) ==
  LET rec == heap[r]
      s == IdbStoreOf(rec.c, DbOf(rec.ns), StOf(rec.ns))
  IN  [ref |-> r, kind |-> IF s = NoStore THEN "none" ELSE "get",
       store |-> s, key |-> rec.key, val |-> Undefined, from |-> from]

\* fault: idbSet stores null instead of deleting the entry
idbSetNeverDeletes(r, value, from) ==
  LET rec == heap[r]
      s == IdbStoreOf(rec.c, DbOf(rec.ns), StOf(rec.ns))
  IN  [ref |-> r, kind |-> IF s = NoStore THEN "none" ELSE "set",
       store |-> s, key |-> rec.key, val |-> value, from |-> from]

\* idbSet(key, value, ns): the request it leaves outstanding
idbSet(r, value, from) ==
  LET rec == heap[r]
      s == IdbStoreOf(rec.c, DbOf(rec.ns), StOf(rec.ns))
  IN  [ref |-> r,
       kind |-> IF s = NoStore THEN "none" ELSE IF value = Null THEN "del" ELSE "set",
       store |-> s, key |-> rec.key, val |-> value, from |-> from]

----------------------------------------------------------------------------
(* broadcast.ts *)

\* getBroadcastChannel: the channel object returned, identified by the context
\* and the cache key it was created under; NoChannel for null
ChannelOf(c, ns) ==
  LET k == nsKey(DbOf(ns), StOf(ns)) IN
  IF ~env[c].window THEN NoChannel
  ELSE IF k \in DOMAIN bcCache[c] THEN (IF bcCache[c][k] = NoChannel THEN NoChannel ELSE k)
  ELSE IF env[c].broadcast THEN k ELSE NoChannel

\* getBroadcastChannel: the cache after the call (the channel name, or
\* NoChannel when the constructor threw)
BcCacheAfter(c, ns) ==
  LET k == nsKey(DbOf(ns), StOf(ns)) IN
  IF ~env[c].window \/ k \in DOMAIN bcCache[c] THEN bcCache
  ELSE [bcCache EXCEPT ![c] = @ @@
          (k :> IF env[c].broadcast THEN channelName(DbOf(ns), StOf(ns)) ELSE NoChannel)]

\* the channel objects that exist in a cache
Channels(cache) ==
  {o \in UNION {{<<c, k>> : k \in DOMAIN cache[c]} : c \in DOMAIN cache} :
     cache[o[1]][o[2]] # NoChannel}

\* postMessage from channel object `from`: an event is queued at every other
\* channel object of the origin with the same channel name, and at `from`
\* itself where the driver delivers a context's own posts back to it
PostMessage(boxes, cache, from, e) ==
  [o \in DOMAIN boxes |->
     IF (o # from \/ env[from[1]].loopback) /\ cache[o[1]][o[2]] = cache[from[1]][from[2]]
     THEN Append(boxes[o], e) ELSE boxes[o]]

\* a channel object created by a call gets an empty listener list and queue
WithObject(f, cache) == [o \in Channels(cache) |-> IF o \in DOMAIN f THEN f[o] ELSE <<>>]

----------------------------------------------------------------------------
(* store-registry: getStore and the closures of a Store Record *)

\* fault: the registry lookup never finds a record
LookupNever(c, k) == 0

\* stores.has(k) ? stores.get(k) : none (0)
Lookup(c, k) == IF k \in DOMAIN stores[c] THEN stores[c][k] ELSE 0

\* the state object getStore builds, with what its closures capture
NewRecord(c, key, initial, schema, ns) ==
  [c |-> c, key |-> key, ns |-> ns, schema |-> schema,
   value |-> Undefined, repairTo |-> initial, hydrated |-> FALSE,
   listeners |-> {}, pc |-> "idle"]

\* fault: the value is taken without validation
RepairedUnchecked(rec, x) == x

\* isValid(x) ? x : state.repairTo
Repaired(rec, x) == IF isValid(rec.schema, x) THEN x ELSE rec.repairTo

\* The outstanding work is capped: a call that would issue a request, and
\* another script posting a message, wait while the requests outstanding and
\* the events queued at the fullest channel object add up to MaxQueue.
MaxBox == IF DOMAIN inbox = {} THEN 0
          ELSE CHOOSE n \in 0..MaxQueue :
                 /\ \A o \in DOMAIN inbox : Len(inbox[o]) <= n
                 /\ \E o \in DOMAIN inbox : Len(inbox[o]) = n
HasRoom == Len(ioq) + MaxBox < MaxQueue

\* fault: getStore re-captures initial and the validator on an existing record
GetStoreRecapture(c, key, initial, schema, ns) ==
  LET k == regKey(key, ns)
      found == Lookup(c, k)
  IN  /\ IF found # 0
         THEN /\ ev' = Ev("getStore", found, key, ns, ArgVal(initial), <<>>, {}, "none")
              /\ heap' = [heap EXCEPT ![found].repairTo = initial, ![found].schema = schema]
              /\ UNCHANGED stores
         ELSE /\ Len(heap) < MaxRecords
              /\ heap' = Append(heap, NewRecord(c, key, initial, schema, ns))
              /\ stores' = [stores EXCEPT ![c] =
                              [x \in (DOMAIN @) \cup {k} |-> IF x = k THEN Len(heap) + 1 ELSE @[x]]]
              /\ ev' = Ev("getStore", Len(heap) + 1, key, ns, ArgVal(initial),
                          <<"create">>, {}, "none")
      /\ UNCHANGED <<env, storeCache, bcCache, handlers, inbox, ioq, idb>>

\* getStore(key, initial, isValid, isEqual, ns) called in context c
GetStore(c, key, initial, schema, ns) ==
  LET k == regKey(key, ns)
      found == Lookup(c, k)
  IN  /\ IF found # 0
         THEN /\ ev' = Ev("getStore", found, key, ns, ArgVal(initial), <<>>, {}, "none")
              /\ UNCHANGED <<stores, heap>>
         ELSE /\ Len(heap) < MaxRecords
              /\ heap' = Append(heap, NewRecord(c, key, initial, schema, ns))
              /\ stores' = [stores EXCEPT ![c] =
                              [x \in (DOMAIN @) \cup {k} |-> IF x = k THEN Len(heap) + 1 ELSE @[x]]]
              /\ ev' = Ev("getStore", Len(heap) + 1, key, ns, ArgVal(initial),
                          <<"create">>, {}, "none")
      /\ UNCHANGED <<env, storeCache, bcCache, handlers, inbox, ioq, idb>>

\* useSyncExternalStore's subscribe: store.listeners.add(listener)
Subscribe(r, l) ==
  /\ l \notin heap[r].listeners
  /\ heap' = [heap EXCEPT ![r].listeners = @ \cup {l}]
  /\ ev' = Ev("subscribe", r, heap[r].key, heap[r].ns, ArgVal(Undefined), <<>>, {}, "none")
  /\ UNCHANGED <<env, stores, storeCache, bcCache, handlers, inbox, ioq, idb>>

\* its cleanup: store.listeners.delete(listener)
Unsubscribe(r, l) ==
  /\ l \in heap[r].listeners
  /\ heap' = [heap EXCEPT ![r].listeners = @ \ {l}]
  /\ ev' = Ev("unsubscribe", r, heap[r].key, heap[r].ns, ArgVal(Undefined), <<>>, {}, "none")
  /\ UNCHANGED <<env, stores, storeCache, bcCache, handlers, inbox, ioq, idb>>

\* whether the step before this one was setValue on the same record with the
\* same argument, and whether that call notified
PrevSame(r, next) ==
  IF ev.op = "setValue" /\ ev.ref = r /\ ev.arg.val = next
  THEN (IF r \in ev.notify THEN "notified" ELSE "quiet")
  ELSE "none"

\* fault: setValue notifies before it assigns the value
SetValueNotifiesFirst(r, next) ==
  LET rec == heap[r]
      safe == Repaired(rec, next)
  IN  IF isEqual(rec.value, safe)
      THEN /\ ev' = Ev("setValue", r, rec.key, rec.ns, ArgVal(next), <<>>, {}, PrevSame(r, next))
           /\ UNCHANGED <<env, stores, heap, storeCache, bcCache, handlers, inbox, ioq, idb>>
      ELSE /\ HasRoom
           /\ heap' = [heap EXCEPT ![r].value = safe]
           \* the async block runs up to its first await: persist -> idbSet -> set/del
           /\ storeCache' = StoreCacheAfter(rec.c, DbOf(rec.ns), StOf(rec.ns))
           /\ ioq' = Append(ioq, idbSet(r, safe, "setValue"))
           /\ ev' = Ev("setValue", r, rec.key, rec.ns, ArgVal(next),
                       <<"notify", "assign", "idbSet">>, {r}, PrevSame(r, next))
           /\ UNCHANGED <<env, stores, bcCache, handlers, inbox, idb>>

\* store.setValue(next)
SetValue(r, next) ==
  LET rec == heap[r]
      safe == Repaired(rec, next)
  IN  IF isEqual(rec.value, safe)
      THEN /\ ev' = Ev("setValue", r, rec.key, rec.ns, ArgVal(next), <<>>, {}, PrevSame(r, next))
           /\ UNCHANGED <<env, stores, heap, storeCache, bcCache, handlers, inbox, ioq, idb>>
      ELSE /\ HasRoom
           /\ heap' = [heap EXCEPT ![r].value = safe]
           \* the async block runs up to its first await: persist -> idbSet -> set/del
           /\ storeCache' = StoreCacheAfter(rec.c, DbOf(rec.ns), StOf(rec.ns))
           /\ ioq' = Append(ioq, idbSet(r, safe, "setValue"))
           \* then notify()
           /\ ev' = Ev("setValue", r, rec.key, rec.ns, ArgVal(next),
                       <<"assign", "idbSet", "notify">>, {r}, PrevSame(r, next))
           /\ UNCHANGED <<env, stores, bcCache, handlers, inbox, idb>>

\* fault: no `if (state.hydrated) return`
HydrateUnguarded(r) ==
  LET rec == heap[r] IN
  IF ~env[rec.c].window
  THEN /\ heap' = [heap EXCEPT ![r].hydrated = TRUE]
       /\ ev' = Ev("hydrate", r, rec.key, rec.ns, ArgVal(Undefined), <<"hydrated">>, {}, "none")
       /\ UNCHANGED <<env, stores, storeCache, bcCache, handlers, inbox, ioq, idb>>
  ELSE LET bc == ChannelOf(rec.c, rec.ns)
           cache == BcCacheAfter(rec.c, rec.ns)
       IN  /\ HasRoom
           /\ heap' = [heap EXCEPT ![r].hydrated = TRUE, ![r].pc = "reading"]
           \* the async block runs up to its first await: idbGet -> get
           /\ storeCache' = StoreCacheAfter(rec.c, DbOf(rec.ns), StOf(rec.ns))
           /\ ioq' = Append(ioq, idbGet(r, "hydrate"))
           /\ bcCache' = cache
           /\ inbox' = WithObject(inbox, cache)
           /\ handlers' = IF bc = NoChannel THEN WithObject(handlers, cache)
                          ELSE [WithObject(handlers, cache) EXCEPT ![<<rec.c, bc>>] = Append(@, r)]
           /\ ev' = Ev("hydrate", r, rec.key, rec.ns, ArgVal(Undefined),
                       IF bc = NoChannel THEN <<"hydrated", "idbGet">>
                       ELSE <<"hydrated", "idbGet", "addEventListener">>, {}, "none")
           /\ UNCHANGED <<env, stores, idb>>

\* store.hydrate()
Hydrate(r) ==
  LET rec == heap[r] IN
  IF rec.hydrated
  THEN /\ ev' = Ev("hydrate", r, rec.key, rec.ns, ArgVal(Undefined), <<>>, {}, "none")
       /\ UNCHANGED <<env, stores, heap, storeCache, bcCache, handlers, inbox, ioq, idb>>
  ELSE IF ~env[rec.c].window
  THEN /\ heap' = [heap EXCEPT ![r].hydrated = TRUE]
       /\ ev' = Ev("hydrate", r, rec.key, rec.ns, ArgVal(Undefined), <<"hydrated">>, {}, "none")
       /\ UNCHANGED <<env, stores, storeCache, bcCache, handlers, inbox, ioq, idb>>
  ELSE LET bc == ChannelOf(rec.c, rec.ns)
           cache == BcCacheAfter(rec.c, rec.ns)
       IN  /\ HasRoom
           /\ heap' = [heap EXCEPT ![r].hydrated = TRUE, ![r].pc = "reading"]
           \* the async block runs up to its first await: idbGet -> get
           /\ storeCache' = StoreCacheAfter(rec.c, DbOf(rec.ns), StOf(rec.ns))
           /\ ioq' = Append(ioq, idbGet(r, "hydrate"))
           /\ bcCache' = cache
           /\ inbox' = WithObject(inbox, cache)
           /\ handlers' = IF bc = NoChannel THEN WithObject(handlers, cache)
                          ELSE [WithObject(handlers, cache) EXCEPT ![<<rec.c, bc>>] = Append(@, r)]
           /\ ev' = Ev("hydrate", r, rec.key, rec.ns, ArgVal(Undefined),
                       IF bc = NoChannel THEN <<"hydrated", "idbGet">>
                       ELSE <<"hydrated", "idbGet", "addEventListener">>, {}, "none")
           /\ UNCHANGED <<env, stores, idb>>

----------------------------------------------------------------------------
(* Completion of IndexedDB requests and the code that awaits them *)

Drop(q, i) == SubSeq(q, 1, i - 1) \o SubSeq(q, i + 1, Len(q))

\* Requests on one object store complete in the order they were issued; the
\* immediate returns of one context (no store) resolve in order too.
SameLane(a, b) == /\ a.store = b.store
                  /\ a.store # NoStore \/ heap[a.ref].c = heap[b.ref].c
Ready(i) == \A j \in 1..(i - 1) : ~SameLane(ioq[j], ioq[i])

Cell(req) == <<req.store[1], req.store[2], req.key>>

\* what get() resolves to: the entry, or undefined when it is missing, when the
\* request fails (idbGet's catch) or when there is no store
GetResult(req, ok) ==
  IF ok /\ req.kind = "get" THEN Stored(idb, Cell(req)) ELSE Undefined

\* the durable content after set()/del() completes; a failure is swallowed
IdbAfter(req, ok) ==
  IF ok /\ req.kind = "set" THEN Put(idb, Cell(req), req.val)
  ELSE IF ok /\ req.kind = "del" THEN Del(idb, Cell(req))
  ELSE idb

\* a request that cannot fail: the immediate return when there is no store
Outcomes(req) == IF req.kind = "none" THEN {TRUE} ELSE {TRUE, FALSE}

\* fault: a failed read is not caught; the async block ends there
HydrateResumeRejects(i, ok) ==
  LET req == ioq[i]
      r == req.ref
      rec == heap[r]
      persisted == Coalesce(GetResult(req, ok), rec.repairTo)
      finalVal == Repaired(rec, persisted)
  IN  /\ req.from = "hydrate"
      /\ Ready(i)
      /\ ok \in Outcomes(req)
      /\ IF ~ok
         THEN /\ heap' = [heap EXCEPT ![r].pc = "done"]
              /\ ioq' = Drop(ioq, i)
              /\ ev' = Ev("hydrateResume", r, rec.key, rec.ns,
                          ArgVal(GetResult(req, ok)), <<>>, {}, "none")
              /\ UNCHANGED storeCache
         ELSE IF ~isEqual(persisted, finalVal)
         THEN /\ heap' = [heap EXCEPT ![r].value = finalVal, ![r].pc = "writeback"]
              /\ storeCache' = StoreCacheAfter(rec.c, DbOf(rec.ns), StOf(rec.ns))
              /\ ioq' = Append(Drop(ioq, i), idbSet(r, finalVal, "writeback"))
              /\ ev' = Ev("hydrateResume", r, rec.key, rec.ns,
                          ArgVal(GetResult(req, ok)), <<"assign", "idbSet">>, {}, "none")
         ELSE /\ heap' = [heap EXCEPT ![r].value = finalVal, ![r].pc = "done"]
              /\ ioq' = Drop(ioq, i)
              /\ ev' = Ev("hydrateResume", r, rec.key, rec.ns,
                          ArgVal(GetResult(req, ok)), <<"assign", "notify">>, {r}, "none")
              /\ UNCHANGED storeCache
      /\ UNCHANGED <<env, stores, bcCache, handlers, inbox, idb>>

\* hydrate's async block after `await idbGet`: lines 147-158
HydrateResume(i, ok) ==
  LET req == ioq[i]
      r == req.ref
      rec == heap[r]
      persisted == Coalesce(GetResult(req, ok), rec.repairTo)
      finalVal == Repaired(rec, persisted)
  IN  /\ req.from = "hydrate"
      /\ Ready(i)
      /\ ok \in Outcomes(req)
      /\ IF ~isEqual(persisted, finalVal)
         THEN /\ heap' = [heap EXCEPT ![r].value = finalVal, ![r].pc = "writeback"]
              /\ storeCache' = StoreCacheAfter(rec.c, DbOf(rec.ns), StOf(rec.ns))
              /\ ioq' = Append(Drop(ioq, i), idbSet(r, finalVal, "writeback"))
              /\ ev' = Ev("hydrateResume", r, rec.key, rec.ns,
                          ArgVal(GetResult(req, ok)), <<"assign", "idbSet">>, {}, "none")
         ELSE /\ heap' = [heap EXCEPT ![r].value = finalVal, ![r].pc = "done"]
              /\ ioq' = Drop(ioq, i)
              /\ ev' = Ev("hydrateResume", r, rec.key, rec.ns,
                          ArgVal(GetResult(req, ok)), <<"assign", "notify">>, {r}, "none")
              /\ UNCHANGED storeCache
      /\ UNCHANGED <<env, stores, bcCache, handlers, inbox, idb>>

\* hydrate's async block after `await persist(finalVal)`: line 160
HydrateFinish(i, ok) ==
  LET req == ioq[i]
      r == req.ref
      rec == heap[r]
  IN  /\ req.from = "writeback"
      /\ Ready(i)
      /\ ok \in Outcomes(req)
      /\ idb' = IdbAfter(req, ok)
      /\ heap' = [heap EXCEPT ![r].pc = "done"]
      /\ ioq' = Drop(ioq, i)
      /\ ev' = Ev("hydrateFinish", r, rec.key, rec.ns, ArgVal(req.val),
                  <<IF ok /\ req.kind # "none" THEN "written" ELSE "unwritten", "notify">>,
                  {r}, "none")
      /\ UNCHANGED <<env, stores, storeCache, bcCache, handlers, inbox>>

\* fault: the message never marks a removal
MessageNeverRemoved(key, safe) ==
  [truthy |-> TRUE, key |-> Name(key), value |-> safe, removed |-> FALSE]

\* the message setValue posts
Message(key, safe) ==
  [truthy |-> TRUE, key |-> Name(key), value |-> safe, removed |-> (safe = Null)]

\* setValue's async block after `await persist(safe)`: lines 129-133
SetValueResume(i, ok) ==
  LET req == ioq[i]
      r == req.ref
      rec == heap[r]
      bc == ChannelOf(rec.c, rec.ns)
      cache == BcCacheAfter(rec.c, rec.ns)
  IN  /\ req.from = "setValue"
      /\ Ready(i)
      /\ ok \in Outcomes(req)
      /\ idb' = IdbAfter(req, ok)
      /\ ioq' = Drop(ioq, i)
      /\ bcCache' = cache
      /\ handlers' = WithObject(handlers, cache)
      /\ inbox' = IF bc = NoChannel THEN WithObject(inbox, cache)
                  ELSE PostMessage(WithObject(inbox, cache), cache, <<rec.c, bc>>,
                                   [data |-> Message(rec.key, req.val), src |-> r])
      /\ ev' = Ev("setValueResume", r, rec.key, rec.ns, ArgVal(req.val),
                  <<IF ok /\ req.kind # "none" THEN "written" ELSE "unwritten">>
                    \o (IF bc = NoChannel THEN <<>> ELSE <<"postMessage">>),
                  {}, "none")
      /\ UNCHANGED <<env, stores, heap, storeCache>>

----------------------------------------------------------------------------
(* The broadcast handler *)

\* the handler's guard: `if (!d || d.key !== key) return`
Accepts(rec, d) == d.truthy /\ d.key = Name(rec.key)

\* fault: the removed flag is not looked at
IncomingValueOnly(rec, d) == d.value

\* d.removed ? state.repairTo : d.value
Incoming(rec, d) == IF d.removed THEN rec.repairTo ELSE d.value

\* handler(event) of record r on heap h: the heap after it and whether it notified
Handler(h, r, d) ==
  LET rec == h[r]
      safe == Repaired(rec, Incoming(rec, d))
  IN  IF Accepts(rec, d) /\ ~isEqual(rec.value, safe)
      THEN [heap |-> [h EXCEPT ![r].value = safe], notify |-> {r}]
      ELSE [heap |-> h, notify |-> {}]

\* the event is dispatched to the object's listeners in registration order
RECURSIVE Dispatch(_, _, _)
Dispatch(h, hs, d) ==
  IF hs = <<>> THEN [heap |-> h, notify |-> {}]
  ELSE LET one == Handler(h, Head(hs), d)
           rest == Dispatch(one.heap, Tail(hs), d)
       IN  [heap |-> rest.heap, notify |-> one.notify \cup rest.notify]

\* a message event is dispatched at channel object o
Deliver(o) ==
  /\ inbox[o] # <<>>
  /\ LET d == Head(inbox[o]).data
         out == Dispatch(heap, handlers[o], d)
     IN  /\ heap' = out.heap
         /\ ev' = Ev("message", Head(inbox[o]).src, "", NoNs, ArgMsg(d),
                     IF out.notify = {} THEN <<>> ELSE <<"assign", "notify">>,
                     out.notify, "none")
  /\ inbox' = [inbox EXCEPT ![o] = Tail(@)]
  /\ UNCHANGED <<env, stores, storeCache, bcCache, handlers, ioq, idb>>

\* a message event carrying d, posted by another script of the origin (another
\* library, another version) on the channel of object o, is dispatched at o
Foreign(o, d) ==
  /\ LET out == Dispatch(heap, handlers[o], d)
     IN  /\ heap' = out.heap
         /\ ev' = Ev("message", 0, "", NoNs, ArgMsg(d),
                     IF out.notify = {} THEN <<>> ELSE <<"assign", "notify">>,
                     out.notify, "none")
  /\ UNCHANGED <<env, stores, storeCache, bcCache, handlers, inbox, ioq, idb>>

----------------------------------------------------------------------------
(* Execution contexts *)

Browser == [window |-> TRUE, indexedDB |-> TRUE, broadcast |-> TRUE, loopback |-> FALSE]
\* a browser without BroadcastChannel: the constructor throws
NoBroadcast == [window |-> TRUE, indexedDB |-> TRUE, broadcast |-> FALSE, loopback |-> FALSE]
\* a browser without IndexedDB
NoIndexedDB == [window |-> TRUE, indexedDB |-> FALSE, broadcast |-> TRUE, loopback |-> FALSE]
\* server rendering: typeof window === "undefined"
Server == [window |-> FALSE, indexedDB |-> FALSE, broadcast |-> FALSE, loopback |-> FALSE]
\* a browser whose broadcast driver does not suppress self-delivery: a post is
\* also delivered at the channel object it was made from
Loopback == [window |-> TRUE, indexedDB |-> TRUE, broadcast |-> TRUE, loopback |-> TRUE]

Listeners == {"l1"}

\* the messages other scripts may post for a logical key
ForeignMessages(key) ==
  { NoMsg,
    [truthy |-> TRUE, key |-> NoName, value |-> Obj(20), removed |-> FALSE],
    [truthy |-> TRUE, key |-> Name(key), value |-> Obj(20), removed |-> FALSE],
    [truthy |-> TRUE, key |-> Name(key), value |-> Obj(999), removed |-> FALSE],
    [truthy |-> TRUE, key |-> Name(key), value |-> Undefined, removed |-> FALSE],
    [truthy |-> TRUE, key |-> Name(key), value |-> Obj(20), removed |-> TRUE] }

\* the state after the modules are loaded, over a durable content left by
\* earlier sessions
InitOver(Ctxs, Envs, Contents) ==
  /\ env \in [Ctxs -> Envs]
  /\ stores = [c \in Ctxs |-> EmptyMap]
  /\ heap = <<>>
  /\ storeCache = [c \in Ctxs |-> EmptyMap]
  /\ bcCache = [c \in Ctxs |-> EmptyMap]
  /\ handlers = EmptyMap
  /\ inbox = EmptyMap
  /\ ioq = <<>>
  /\ idb \in Contents
  /\ ev = Ev("init", 0, "", NoNs, ArgVal(Undefined), <<>>, {}, "none")

\* getStore calls of the application
RegistrySteps(Ctxs, Keys, Nss, Initials, Schemas) ==
  \E c \in Ctxs, key \in Keys, ns \in Nss, initial \in Initials, schema \in Schemas :
    GetStore(c, key, initial, schema, ns)

\* consumers starting and stopping to observe a record
ListenerSteps ==
  \/ \E r \in Refs, l \in Listeners : Subscribe(r, l)
  \/ \E r \in Refs, l \in Listeners : Unsubscribe(r, l)

\* the operations of the records and the completions of their requests
RecordSteps(Inputs, Oks) ==
  \/ \E r \in Refs, next \in Inputs : SetValue(r, next)
  \/ \E r \in Refs : Hydrate(r)
  \/ \E i \in 1..Len(ioq), ok \in Oks : HydrateResume(i, ok)
  \/ \E i \in 1..Len(ioq), ok \in Oks : HydrateFinish(i, ok)
  \/ \E i \in 1..Len(ioq), ok \in Oks : SetValueResume(i, ok)

\* the message events of the records' own posts
DeliverSteps == \E o \in DOMAIN inbox : Deliver(o)

\* the message events of other scripts' posts
ForeignSteps(Messages) == \E o \in DOMAIN inbox, d \in Messages : Foreign(o, d)

----------------------------------------------------------------------------
(* One Store Record in one context: the record state machine *)

SettingsCell == <<"local-db", "local-db", "settings">>
SettingsContents ==
  { EmptyMap } \cup { [x \in {SettingsCell} |-> v] : v \in {Obj(20), Obj(999)} }

SettingsInitials == {Null, Obj(16), Obj(999), NaN}
SettingsInputs == {Null, Obj(20), Obj(999)}
SettingsSchemas == {"font", "any"}
SettingsKeys == {"settings"}
SettingsMessages == ForeignMessages("settings")

\* the contexts, the namespaces and the request outcomes of a scenario
OneContext == {1}
TwoContexts == {1, 2}
DefaultNs == {NoNs}
Reliable == {TRUE}
Unreliable == {TRUE, FALSE}

Init == InitOver(OneContext, {Browser, NoBroadcast, NoIndexedDB, Server}, SettingsContents)
Next ==
  \/ RegistrySteps(OneContext, SettingsKeys, DefaultNs, SettingsInitials, SettingsSchemas)
  \/ RecordSteps(SettingsInputs, Unreliable)
  \/ ForeignSteps(SettingsMessages)
Spec == Init /\ [][Next]_vars

\* the same record and its listeners, with no inbound message and a durable
\* store whose requests never fail
NextLocal ==
  \/ RegistrySteps(OneContext, SettingsKeys, DefaultNs, SettingsInitials, SettingsSchemas)
  \/ ListenerSteps
  \/ RecordSteps(SettingsInputs, Reliable)
SpecLocal == Init /\ [][NextLocal]_vars

----------------------------------------------------------------------------
(* The registry: several identities in one context, among them names that  *)
(* hold the separators of regKey                                           *)

RegistryNss ==
  { NoNs,
    [dbName |-> Name("local-db"), storeName |-> Name("local-db")],
    [dbName |-> Name("a/b"), storeName |-> Name("c")],
    [dbName |-> Name("a"), storeName |-> Name("b/c")] }
RegistryContents ==
  { [x \in {<<"local-db", "local-db", "k">>} |-> Obj(999)] }

RegistryKeys == {"k"}
RegistrySchemas == {"font"}
RegistryInitials == {Obj(16)}
RegistryInputs == {Obj(20)}
RegistryMessages ==
  { [truthy |-> TRUE, key |-> Name("k"), value |-> Obj(20), removed |-> FALSE] }

InitRegistry == InitOver(OneContext, {Browser}, RegistryContents)
NextRegistry ==
  \/ RegistrySteps(OneContext, RegistryKeys, RegistryNss, RegistryInitials, RegistrySchemas)
  \/ ListenerSteps
  \/ RecordSteps(RegistryInputs, Reliable)
  \/ ForeignSteps(RegistryMessages)
SpecRegistry == InitRegistry /\ [][NextRegistry]_vars

----------------------------------------------------------------------------
(* Synchronisation: two contexts of one origin, several identities         *)

SyncNss ==
  { [dbName |-> Name("a:b"), storeName |-> Name("c")],
    [dbName |-> Name("a"), storeName |-> Name("b:c")] }

SyncContents ==
  { [x \in {<<"a:b", "c", "k">>} |-> Obj(999)] }

SyncKeys == {"k", "j"}

InitSync == InitOver(TwoContexts, {Browser}, SyncContents)
NextSync ==
  \/ RegistrySteps(TwoContexts, SyncKeys, SyncNss, RegistryInitials, RegistrySchemas)
  \/ RecordSteps(RegistryInputs, Reliable)
  \/ DeliverSteps
SpecSync == InitSync /\ [][NextSync]_vars

----------------------------------------------------------------------------
(* Propagation: one identity opened in two contexts of one origin          *)

PropagateContents ==
  { [x \in {<<"local-db", "local-db", "k">>} |-> Obj(999)] }

PropagateInputs == {Null, Obj(20)}

InitPropagate == InitOver(TwoContexts, {Browser}, PropagateContents)
NextPropagate ==
  \/ RegistrySteps(TwoContexts, RegistryKeys, DefaultNs, RegistryInitials, RegistrySchemas)
  \/ RecordSteps(PropagateInputs, Reliable)
  \/ DeliverSteps
SpecPropagate == InitPropagate /\ [][NextPropagate]_vars

----------------------------------------------------------------------------
(* Echo: one record in a context whose driver delivers the record's own    *)
(* posts back to it                                                        *)

LoopbackEnvs == {Loopback}

InitEcho == InitOver(OneContext, LoopbackEnvs, PropagateContents)
NextEcho ==
  \/ RegistrySteps(OneContext, RegistryKeys, DefaultNs, RegistryInitials, RegistrySchemas)
  \/ RecordSteps(PropagateInputs, Reliable)
  \/ DeliverSteps
SpecEcho == InitEcho /\ [][NextEcho]_vars

----------------------------------------------------------------------------
(* Properties of the Store Record *)

\* what a read of the durable store for the record's key returns
Persisted(rec) == Stored(idb, Norm(rec.key, rec.ns))

\* what a hydration of the record would load from the durable store now
Reload(rec) == Repaired(rec, Coalesce(Persisted(rec), rec.repairTo))

\* the durable store holds v: no entry for null (idbSet deletes), else v
Holds(rec, v) == IF v = Null THEN Persisted(rec) = Undefined ELSE Persisted(rec) = v

\* the requests of record r still outstanding
Pending(r) == {i \in 1..Len(ioq) : ioq[i].ref = r}

\* C3: currentValue is always the hydrating sentinel, a value its record's
\* validate accepts (null counts as valid), or the record's repairTarget.
C3_ValueValidOrRepaired ==
  \A r \in Refs :
    \/ heap[r].value = Undefined
    \/ isValid(heap[r].schema, heap[r].value)
    \/ heap[r].value = heap[r].repairTo

\* an inbound message carrying an invalid value has been repaired
C3_Witness ==
  /\ ev.op = "message"
  /\ ev.notify # {}
  /\ ~ev.arg.msg.removed
  /\ \E r \in ev.notify :
       /\ ~isValid(heap[r].schema, ev.arg.msg.value)
       /\ heap[r].value = heap[r].repairTo

\* C4: once currentValue has left the hydrating sentinel, no step (setValue,
\* hydration completion, inbound message of any shape) sets it back.
C4_NeverBackToHydrating ==
  [][\A r \in Refs : heap[r].value # Undefined => heap'[r].value # Undefined]_vars

\* C5: setValue(v) with validate(v) false leaves currentValue = repairTarget,
\* and with no request of the record left outstanding a read of the durable
\* store reflects repairTarget: it holds repairTarget, or holds no entry so
\* that the read falls back to repairTarget. (SpecLocal: no request fails.)
C5_Repair ==
  (ev.op = "setValue" /\ ~isValid(heap[ev.ref].schema, ev.arg.val)) =>
     /\ heap[ev.ref].value = heap[ev.ref].repairTo
     /\ (env[heap[ev.ref].c].indexedDB /\ Pending(ev.ref) = {}) =>
           Reload(heap[ev.ref]) = heap[ev.ref].repairTo

\* a step that is a call setValue(x) on record r
IsSetValue(r, x) == ev'.op = "setValue" /\ ev'.ref = r /\ ev'.arg.val = x

\* the no-op half of C6: a setValue whose repaired value equals currentValue
\* changes no state, notifies nobody, issues no write and posts nothing
NoOpStep ==
  \A r \in Refs, x \in SettingsInputs :
    (IsSetValue(r, x) /\ isEqual(heap[r].value, Repaired(heap[r], x))) =>
      /\ ev'.notify = {} /\ ev'.trace = <<>>
      /\ UNCHANGED <<heap, ioq, inbox, idb, storeCache, bcCache>>

\* C6 as stated: the no-op half, and two calls setValue(x) in succession with
\* equal x trigger exactly one notification and at most one write. (Stated for
\* repaired values other than NaN, which the equality contract never finds
\* equal to anything: there every call notifies and writes.)
C6_ExactlyOneNotification ==
  [][ /\ NoOpStep
      /\ (/\ ev'.op = "setValue" /\ ev'.prev # "none"
          /\ Repaired(heap[ev'.ref], ev'.arg.val) # NaN) =>
           /\ (IF ev'.prev = "notified" THEN 1 ELSE 0)
                + (IF ev'.ref \in ev'.notify THEN 1 ELSE 0) = 1
           /\ ev'.trace = <<>> ]_vars

\* C6 amended: the no-op half; of two calls setValue(x) in succession with
\* equal x whose repaired value equals itself under the equality contract (any
\* value but NaN), the second is a no-op, so the two trigger at most one
\* notification and at most one write.
C6_AtMostOneNotification ==
  [][ /\ NoOpStep
      /\ (/\ ev'.op = "setValue" /\ ev'.prev # "none"
          /\ Repaired(heap[ev'.ref], ev'.arg.val) # NaN) =>
           /\ ev'.notify = {} /\ ev'.trace = <<>>
           /\ UNCHANGED <<heap, ioq, inbox, idb>> ]_vars

\* a second setValue(x) after a first one that changed the value and notified
C6_Witness ==
  /\ ev.op = "setValue" /\ ev.prev = "notified" /\ ev.notify = {}
  /\ heap[ev.ref].pc = "done"
  /\ ev.arg.val.t = "object"

\* the durable read of record r has been dispatched and has not completed
Reading(rec) == rec.hydrated /\ rec.pc = "reading"

\* hydration has just completed its read and found no persisted entry
NoEntryRead ==
  /\ ev.op = "hydrateResume"
  /\ ev.arg.val = Undefined
  /\ Persisted(heap[ev.ref]) = Undefined

\* C7 as stated: while the durable read has not completed currentValue stays
\* the hydrating sentinel, whatever setValue calls or inbound messages occur;
\* when the read completes with no persisted entry currentValue is repairTarget.
C7_HydratingUntilRead ==
  [][ /\ \A r \in Refs :
           (Reading(heap[r]) /\ Reading(heap'[r]) /\ heap[r].value = Undefined) =>
              heap'[r].value = Undefined
      /\ NoEntryRead' => heap'[ev'.ref].value = heap'[ev'.ref].repairTo ]_vars

\* C7 amended: while the durable read has not completed, currentValue leaves
\* the hydrating sentinel only by a setValue call or an inbound message for the
\* key (which assign a validated or repaired value at once); when the read
\* completes with no persisted entry currentValue is repairTarget.
C7_HydratingUnlessAssigned ==
  [][ /\ \A r \in Refs :
           (/\ Reading(heap[r]) /\ Reading(heap'[r])
            /\ heap[r].value = Undefined /\ heap'[r].value # Undefined) =>
              \/ ev'.op = "setValue" /\ ev'.ref = r
              \/ ev'.op = "message" /\ r \in ev'.notify
      /\ NoEntryRead' => heap'[ev'.ref].value = heap'[ev'.ref].repairTo ]_vars

\* a read that found no entry completes after a setValue made while it was in
\* flight, and replaces the value set by repairTarget
C7_Witness ==
  /\ NoEntryRead
  /\ heap[ev.ref].value = Obj(16)
  /\ \E i \in Pending(ev.ref) : ioq[i].from = "setValue" /\ ioq[i].val = Obj(20)

\* C8: hydration of a key with no persisted entry and a non-absent initial
\* value sets currentValue to the initial value and issues one durable write of
\* it (the write-back).
C8_WriteBackOfInitial ==
  (NoEntryRead /\ heap[ev.ref].repairTo # Null /\ env[heap[ev.ref].c].indexedDB) =>
     /\ heap[ev.ref].value = heap[ev.ref].repairTo
     /\ \E i \in Pending(ev.ref) :
          /\ ioq[i].from = "writeback" /\ ioq[i].kind = "set"
          /\ ioq[i].val = heap[ev.ref].repairTo
     /\ Cardinality({i \in Pending(ev.ref) : ioq[i].from = "writeback"}) = 1

\* hydration has just read a persisted value that fails validation
InvalidRead ==
  /\ ev.op = "hydrateResume"
  /\ ev.arg.val \notin {Undefined, Null}
  /\ ~isValid(heap[ev.ref].schema, ev.arg.val)

\* the write-back of record r queued by the last step, if any
WriteBacks(r) == {i \in Pending(r) : ioq[i].from = "writeback"}

\* the write-back of repairTarget: a delete when repairTarget is null
IsRepairWrite(req, rec) ==
  /\ req.val = rec.repairTo
  /\ req.kind = IF rec.repairTo = Null THEN "del" ELSE "set"
  /\ <<req.store[1], req.store[2], req.key>> = Norm(rec.key, rec.ns)

\* a write-back has just completed successfully
WriteBackDone == ev.op = "hydrateFinish" /\ Head(ev.trace) = "written"

\* C9 as stated: a persisted value that fails validation makes currentValue
\* repairTarget and a durable write (a delete for null) replaces the entry, so
\* that after the write the store no longer holds the invalid value.
C9_InvalidOverwritten ==
  /\ InvalidRead =>
       /\ heap[ev.ref].value = heap[ev.ref].repairTo
       /\ WriteBacks(ev.ref) # {}
       /\ \A i \in WriteBacks(ev.ref) : IsRepairWrite(ioq[i], heap[ev.ref])
  /\ WriteBackDone => Holds(heap[ev.ref], ev.arg.val)

\* C9 amended: ... unless repairTarget equals the persisted value under the
\* equality contract (a repair target that is itself invalid): then no write is
\* issued and the entry stays as it is.
C9_InvalidOverwrittenUnlessEqual ==
  /\ InvalidRead =>
       /\ heap[ev.ref].value = heap[ev.ref].repairTo
       /\ IF isEqual(ev.arg.val, heap[ev.ref].repairTo)
          THEN WriteBacks(ev.ref) = {} /\ Persisted(heap[ev.ref]) = ev.arg.val
          ELSE /\ Cardinality(WriteBacks(ev.ref)) = 1
               /\ \A i \in WriteBacks(ev.ref) : IsRepairWrite(ioq[i], heap[ev.ref])
  /\ WriteBackDone => Holds(heap[ev.ref], ev.arg.val)

\* the invalid entry {fontSize: 999} has been replaced by the repair target
\* {fontSize: 16}
C9_Witness ==
  /\ WriteBackDone
  /\ heap[ev.ref].schema = "font"
  /\ heap[ev.ref].repairTo = Obj(16)
  /\ Persisted(heap[ev.ref]) = Obj(16)

----------------------------------------------------------------------------
(* Properties of the registry *)

IdentityOf(rec) == Norm(rec.key, rec.ns)

\* C1: at most one Store Record exists per (dbName, storeName, key), defaults
\* applied, in a context, and getStore for an identity that has a record
\* returns that record (whose currentValue is what any handle reads).
C1_Singleton ==
  /\ \A r1, r2 \in Refs :
       (heap[r1].c = heap[r2].c /\ IdentityOf(heap[r1]) = IdentityOf(heap[r2])) => r1 = r2
  /\ ev.op = "getStore" =>
       \A r \in Refs :
         (heap[r].c = heap[ev.ref].c /\ IdentityOf(heap[r]) = Norm(ev.key, ev.ns)) =>
            ev.ref = r

\* getStore with the default names spelled out returns the record created with
\* them omitted, and reads the value set through the first handle while its
\* write is still outstanding
C1_Witness ==
  /\ ev.op = "getStore" /\ ev.trace = <<>>
  /\ ev.ns # heap[ev.ref].ns
  /\ IdentityOf(heap[ev.ref]) = Norm(ev.key, ev.ns)
  /\ heap[ev.ref].value = Obj(20)
  /\ Persisted(heap[ev.ref]) # Obj(20)

\* C2: getStore calls whose (dbName, storeName, key) differ in a component
\* never return the same record: the record returned has the caller's identity.
C2_DistinctIdentities ==
  ev.op = "getStore" => IdentityOf(heap[ev.ref]) = Norm(ev.key, ev.ns)

\* C10: a message posted by the setValue of one record changes and notifies
\* only records of the same (dbName, storeName, key).
C10_Isolation ==
  (ev.op = "message" /\ ev.ref # 0) =>
     \A r \in ev.notify : IdentityOf(heap[r]) = IdentityOf(heap[ev.ref])

----------------------------------------------------------------------------
(* Properties of synchronisation between contexts *)

\* nothing is outstanding: every request has completed and every message
\* event has been dispatched
Quiet == ioq = <<>> /\ \A o \in DOMAIN inbox : inbox[o] = <<>>

\* record r is a hydrated record of the identity of record w in another context
ReceiverOf(w, r) ==
  /\ heap[r].hydrated
  /\ heap[r].c # heap[w].c
  /\ IdentityOf(heap[r]) = IdentityOf(heap[w])

\* C11 as stated: when the last thing to complete is the dispatch of the
\* message of a writer's last setValue, every hydrated record of the same
\* identity in another context holds the value the writer set.
C11_Propagates ==
  [][ (ev'.op = "message" /\ ev'.ref # 0 /\ Quiet') =>
        \A r \in Refs :
          ReceiverOf(ev'.ref, r) => heap'[r].value = ev'.arg.msg.value ]_vars

\* C11 amended: ... holds the value the writer set when that value is not
\* null and passes the receiver's validate, and the receiver's own
\* repairTarget when the writer set null or a value the receiver rejects.
C11_PropagatesRepaired ==
  [][ (ev'.op = "message" /\ ev'.ref # 0 /\ Quiet') =>
        \A r \in Refs :
          ReceiverOf(ev'.ref, r) =>
            heap'[r].value =
              IF ev'.arg.msg.value = Null \/ ~isValid(heap[r].schema, ev'.arg.msg.value)
              THEN heap[r].repairTo ELSE ev'.arg.msg.value ]_vars

\* the value {fontSize: 20} set in one context has reached a hydrated record
\* of the identity in the other, which held its initial value before
C11_Witness ==
  /\ ev.op = "message" /\ ev.ref # 0 /\ Quiet
  /\ ev.arg.msg.value = Obj(20)
  /\ \E r \in ev.notify :
       /\ ReceiverOf(ev.ref, r)
       /\ heap[r].value = Obj(20) /\ heap[ev.ref].value = Obj(20)

\* C12: getStore on an identity that already has a record leaves the record as
\* it is: repairTarget, currentValue, hydrated flag, listener set and the
\* captured validator are not modified (nor is anything else), whatever
\* initialValue and validator the later call supplies.
C12_GetStoreFrame ==
  [][ (ev'.op = "getStore" /\ ev'.trace = <<>>) =>
        /\ ev'.ref \in Refs
        /\ heap' = heap
        /\ UNCHANGED <<stores, storeCache, bcCache, handlers, inbox, ioq, idb>> ]_vars

\* a later getStore supplying another initialValue has returned a hydrated
\* record with a listener, whose value and repairTarget are as they were
C12_Witness ==
  /\ ev.op = "getStore" /\ ev.trace = <<>>
  /\ ev.arg.val = Null
  /\ heap[ev.ref].repairTo = Obj(16)
  /\ heap[ev.ref].value = Obj(20)
  /\ heap[ev.ref].hydrated
  /\ heap[ev.ref].listeners # {}

----------------------------------------------------------------------------
(* Properties of the broadcast handler *)

\* the message has the shape {key, value, removed}: a key and a value field
\* (a missing removed field reads as false)
WellShaped(d) == d.truthy /\ d.key # NoName /\ d.value # Undefined

\* C13: an inbound message that lacks the shape {key, value, removed}, or whose
\* key is not the record's key, is ignored: currentValue (and the rest of the
\* record) is unchanged and no listener is notified.
C13_MalformedIgnored ==
  [][ ev'.op = "message" =>
        \A r \in Refs :
          (~WellShaped(ev'.arg.msg) \/ ev'.arg.msg.key # Name(heap[r].key)) =>
             heap'[r] = heap[r] /\ r \notin ev'.notify ]_vars

\* the handler of record r is registered on a channel object
Listening(r) == \E o \in DOMAIN handlers : \E i \in 1..Len(handlers[o]) : handlers[o][i] = r

\* C14: when a message for the record's key arrives with removed set,
\* currentValue becomes repairTarget whatever the message's value field holds,
\* and the listeners are notified iff repairTarget differs, under the equality
\* contract, from the previous currentValue.
C14_RemovedToRepairTarget ==
  [][ (ev'.op = "message" /\ ev'.arg.msg.truthy /\ ev'.arg.msg.removed) =>
        \A r \in Refs :
          (Listening(r) /\ ev'.arg.msg.key = Name(heap[r].key)) =>
             /\ heap'[r].value = heap[r].repairTo
             /\ r \in ev'.notify <=> ~isEqual(heap[r].value, heap[r].repairTo) ]_vars

\* a removed message carrying {fontSize: 20} has moved a record to its repair
\* target {fontSize: 16} and notified it
C14_Witness ==
  /\ ev.op = "message" /\ ev.arg.msg.removed
  /\ ev.arg.msg.value = Obj(20)
  /\ \E r \in ev.notify : heap[r].repairTo = Obj(16) /\ heap[r].value = Obj(16)

----------------------------------------------------------------------------
(* Properties of the order of effects *)

\* in the sequence of calls tr, a call a is made before a call b
Before(tr, a, b) == \E i, j \in 1..Len(tr) : i < j /\ tr[i] = a /\ tr[j] = b
Called(tr, a) == \E i \in 1..Len(tr) : tr[i] = a

\* a state-changing setValue has just been made
Changing == ev.op = "setValue" /\ ev.ref \in ev.notify

----------------------------------------------------------------------------
(* Properties of self-delivery *)

\* the message event is the echo of a post of record r, dispatched to r's own
\* handler
EchoAt(r) == ev'.op = "message" /\ ev'.ref = r /\ Listening(r)

\* C16: the delivery of a broadcast produced by a record's own setValue back
\* to that record changes neither its currentValue nor notifies its listeners,
\* whatever local setValue calls came before the delivery.
C16_EchoHarmless ==
  [][ \A r \in Refs :
        EchoAt(r) => /\ heap'[r].value = heap[r].value
                     /\ r \notin ev'.notify ]_vars

\* C17: every change of a record's currentValue is notified to its listeners
\* before the next suspension point, that is within the step that assigns it:
\* in setValue, in the completion of hydration and in the broadcast handler.
C17_NotifiedWithoutSuspension ==
  [][ \A r \in Refs :
        heap'[r].value # heap[r].value => r \in ev'.notify ]_vars

----------------------------------------------------------------------------
(* Properties of hydrate *)

\* the durable reads of record r that are in flight
Reads(r) == {i \in Pending(r) : ioq[i].from = "hydrate"}

\* the registrations of r's handler on channel objects
Registrations(r) ==
  {p \in UNION {{<<o, i>> : i \in 1..Len(handlers[o])} : o \in DOMAIN handlers} :
     handlers[p[1]][p[2]] = r}

\* C18: hydrate is idempotent. The hydrated mark is never taken back, a durable
\* read is dispatched and a broadcast handler registered only by the call that
\* sets the mark (so at most once per record), and a call on a record that is
\* already marked changes nothing.
C18_HydrateIdempotent ==
  [][ \A r \in Refs :
        /\ heap[r].hydrated => heap'[r].hydrated
        /\ Cardinality(Reads(r)') > Cardinality(Reads(r)) =>
              ~heap[r].hydrated /\ heap'[r].hydrated
        /\ Cardinality(Registrations(r)') > Cardinality(Registrations(r)) =>
              ~heap[r].hydrated /\ heap'[r].hydrated
        /\ Cardinality(Registrations(r)') <= 1
        /\ (ev'.op = "hydrate" /\ ev'.ref = r /\ heap[r].hydrated) =>
              /\ heap' = heap
              /\ UNCHANGED <<stores, storeCache, bcCache, handlers, inbox, ioq, idb>> ]_vars

\* hydrate has been called again while the read of the first call is in flight
C18_Witness ==
  /\ ev.op = "hydrate"
  /\ ev.trace = <<>>
  /\ Reads(ev.ref) # {}
  /\ Registrations(ev.ref) # {}

----------------------------------------------------------------------------
(* Properties of storage failures *)

\* the step is the completion of r's hydration read, which resolved to
\* undefined: no entry, a failed request, or no store at all
ReadUndefined(r) == ev'.op = "hydrateResume" /\ ev'.ref = r /\ ev'.arg.val = Undefined

\* the step is the completion of a write or delete of r that failed or had no
\* store to go to
Unwritten(r) ==
  /\ ev'.op \in {"setValueResume", "hydrateFinish"}
  /\ ev'.ref = r
  /\ Head(ev'.trace) = "unwritten"

\* C19: storage failures are absorbed. A hydration read that fails, or finds
\* no store, completes as for an absent key: currentValue is the repairTarget
\* and the listeners are notified (in that step, or by the completion of the
\* write-back it started, which notifies whether or not the write succeeds).
\* A write or delete that fails leaves currentValue and the durable content
\* as they are, and the code that awaited it goes on: setValue's block to its
\* postMessage, hydrate's block to its notification.
C19_FailuresAbsorbed ==
  [][ \A r \in Refs :
        /\ ReadUndefined(r) =>
              /\ heap'[r].value = heap[r].repairTo
              /\ r \in ev'.notify \/ WriteBacks(r)' # {}
              /\ Cardinality(Reads(r)') < Cardinality(Reads(r))
        /\ ev'.op = "hydrateFinish" /\ ev'.ref = r => r \in ev'.notify
        /\ Unwritten(r) =>
              /\ heap'[r].value = heap[r].value
              /\ idb' = idb
              /\ Len(ioq') < Len(ioq)
              /\ ev'.op = "setValueResume" /\ ChannelOf(heap[r].c, heap[r].ns) # NoChannel
                    => Called(ev'.trace, "postMessage") ]_vars

\* a read failed although the store holds an entry for the key, and hydration
\* completed with the repairTarget
C19_Witness ==
  /\ ev.op = "hydrateResume"
  /\ ev.arg.val = Undefined
  /\ env[heap[ev.ref].c].indexedDB
  /\ Persisted(heap[ev.ref]) # Undefined
  /\ heap[ev.ref].value = heap[ev.ref].repairTo
  /\ ev.ref \in ev.notify

----------------------------------------------------------------------------
(* Properties of the durable store at rest *)

\* the write of a state-changing setValue of record r has just completed and
\* no read or write is outstanding any more, in a context that has IndexedDB
SettledAfterSetValue(r) ==
  /\ ev.op = "setValueResume"
  /\ ev.ref = r
  /\ ioq = <<>>
  /\ env[heap[r].c].indexedDB

\* C20: in one context, with no inbound message and no failing request, once
\* the hydration read and every write have completed after a state-changing
\* setValue, the durable store agrees with currentValue (no entry for null,
\* else an entry equal to it), also when setValue was called during the read.
C20_DurableAgrees ==
  \A r \in Refs : SettledAfterSetValue(r) => Holds(heap[r], heap[r].value)

====
